---- MODULE Spec2Model ----
(***************************************************************************)
(* Model of the AXIS assistant front-end (src/index.tsx): the turn         *)
(* orchestration of the App component (handleSubmit,                       *)
(* handleImageGeneration), the speech capture and speech output handlers,  *)
(* the text-to-speech effect, and the pure helpers getApiErrorMessage and  *)
(* parseResponse.                                                          *)
(*                                                                         *)
(* A text is a sequence of symbols.  A symbol is a one-character string,   *)
(* or a longer string standing for one literal of the source that the      *)
(* program only ever copies (never inspects character by character).       *)
(***************************************************************************)
EXTENDS Integers, Sequences, FiniteSets, TLC

VARIABLES
    messages,          \* useState<Message[]>                 (line 228)
    input,             \* useState("")  the draft             (line 229)
    isLoading,         \* useState(false)                     (line 230)
    loadingText,       \* useState("Processing...")           (line 231)
    chat,              \* useState<Chat | null>: TRUE iff a session handle exists (line 232)
    ai,                \* useState<GoogleGenAI | null>: TRUE iff non-null         (line 233)
    isListening,       \* useState(false)                     (line 234)
    isTtsEnabled,      \* useState(false)                     (line 235)
    isSpeechSupported, \* !!SpeechRecognition                 (line 238)
    isTtsSupported,    \* "speechSynthesis" in window         (line 239)
    pc,                \* position of the one handleSubmit continuation
    chatRequest,       \* argument of the outstanding chat.sendMessage call
    chatResult,        \* what that call settled with, until the next submit
    imageRequest,      \* prompt of the outstanding ai.models.generateImages call
    recState,          \* state of the platform recognizer behind recognitionRef
    synth,             \* utterance queue of window.speechSynthesis
    parseCalls,        \* arguments parseResponse has been called with, in order
    consoleLog,        \* the function installed as console.log
    output,            \* CodeBlock: useState<string[]>([])           (line 107)
    runError,          \* CodeBlock: error, useState<string | null>(null) (line 108)
    uncaught,          \* the exception that left the last handleRunCode call
    fnIn,              \* argument of the pure function under check
    fnOut              \* its result

vars == <<messages, input, isLoading, loadingText, chat, ai, isListening,
          isTtsEnabled, isSpeechSupported, isTtsSupported, pc, chatRequest,
          chatResult, imageRequest, recState, synth, parseCalls, consoleLog,
          output, runError, uncaught, fnIn, fnOut>>

(***************************************************************************)
(* Bounds.                                                                 *)
(***************************************************************************)
MaxTurns == 2

MaxPhrases == 2

MaxTokens == 6

MaxLogs == 2

(***************************************************************************)
(* Characters and strings.                                                 *)
(***************************************************************************)
UpperChars == <<"A", "B", "C", "D", "E", "F", "G", "H", "I", "J", "K", "L", "M",
                "N", "O", "P", "Q", "R", "S", "T", "U", "V", "W", "X", "Y", "Z">>

LowerChars == <<"a", "b", "c", "d", "e", "f", "g", "h", "i", "j", "k", "l", "m",
                "n", "o", "p", "q", "r", "s", "t", "u", "v", "w", "x", "y", "z">>

DigitChars == {"0", "1", "2", "3", "4", "5", "6", "7", "8", "9"}

\* \s of the regular expressions and of String.prototype.trim
WhiteSpace == {" ", "\n", "\t", "\r"}

\* \w of the regular expression
WordChars == {UpperChars[i] : i \in 1..26} \cup {LowerChars[i] : i \in 1..26}
                \cup DigitChars \cup {"_"}

SetMin(S) == CHOOSE x \in S : \A y \in S : x <= y

SetMax(S) == CHOOSE x \in S : \A y \in S : x >= y

\* String.prototype.toLowerCase, one character
LowerChar(c) ==
    IF \E i \in 1..26 : UpperChars[i] = c
    THEN LowerChars[CHOOSE i \in 1..26 : UpperChars[i] = c]
    ELSE c

\* String.prototype.toLowerCase
ToLowerCase(s) == [i \in 1..Len(s) |-> LowerChar(s[i])]

\* String.prototype.trim
Trim(s) ==
    LET keep == {i \in 1..Len(s) : s[i] \notin WhiteSpace}
    IN  IF keep = {} THEN <<>> ELSE SubSeq(s, SetMin(keep), SetMax(keep))

\* s.startsWith(p, i - 1) with 1-based i
StartsAt(s, i, p) ==
    /\ i >= 1
    /\ i + Len(p) - 1 <= Len(s)
    /\ \A k \in 1..Len(p) : s[i + k - 1] = p[k]

\* String.prototype.includes
Includes(s, p) == \E i \in 1..(Len(s) + 1) : StartsAt(s, i, p)

\* Array.prototype.join(" ") over a sequence of texts
RECURSIVE JoinSpace(_)
JoinSpace(ts) ==
    IF Len(ts) = 0 THEN <<>>
    ELSE IF Len(ts) = 1 THEN ts[1]
    ELSE ts[1] \o <<" ">> \o JoinSpace(Tail(ts))

(***************************************************************************)
(* getApiErrorMessage (lines 43-76).  An error value is either an Error    *)
(* object with a message, or a thrown string.                              *)
(***************************************************************************)
OfflineText == <<"It seems you're offline. Please check your internet connection.">>

AuthText == <<"There seems to be an issue with the API key. Please verify it is correct and has the required permissions.">>

QuotaText == <<"The API quota has been exceeded. Please check your usage limits.">>

ServiceText == <<"The AI service is currently experiencing issues. Please try again in a few moments.">>

NetworkText == <<"A network error occurred while trying to reach the AI service. Please check your connection.">>

UnknownPrefix == <<"An unexpected error occurred. Details: ">>

NoDetails == <<"No additional information available.">>

\* error?.message : the message of an Error object, undefined (here <<>>,
\* equally falsy) for a thrown string
MessageOf(error) == IF error.kind = "Error" THEN error.text ELSE <<>>

\* String(error)
StringOf(error) ==
    IF error.kind = "Error"
    THEN IF error.text = <<>> THEN <<"E", "r", "r", "o", "r">>
         ELSE <<"E", "r", "r", "o", "r", ":", " ">> \o error.text
    ELSE error.text

\* (error?.message || String(error)).toLowerCase()   (line 48)
LoweredMessage(error) ==
    ToLowerCase(IF MessageOf(error) # <<>> THEN MessageOf(error) ELSE StringOf(error))

PApiKey == <<"a", "p", "i", " ", "k", "e", "y", " ", "n", "o", "t", " ", "v", "a", "l", "i", "d">>

PPermission == <<"p", "e", "r", "m", "i", "s", "s", "i", "o", "n", " ", "d", "e", "n", "i", "e", "d">>

PQuota == <<"q", "u", "o", "t", "a">>

P500 == <<"5", "0", "0">>

P503 == <<"5", "0", "3">>

PServerError == <<"s", "e", "r", "v", "e", "r", " ", "e", "r", "r", "o", "r">>

PFetch == <<"f", "e", "t", "c", "h">>

PNetwork == <<"n", "e", "t", "w", "o", "r", "k">>

\* variant: the server-error test placed ahead of the credential and quota tests
getApiErrorMessage_ServerFirst(error, onLine) ==
    LET message == LoweredMessage(error)
    IN  IF ~onLine THEN OfflineText
        ELSE IF Includes(message, P500) \/ Includes(message, P503)
                \/ Includes(message, PServerError)
        THEN ServiceText
        ELSE IF Includes(message, PApiKey) \/ Includes(message, PPermission)
        THEN AuthText
        ELSE IF Includes(message, PQuota) THEN QuotaText
        ELSE IF Includes(message, PFetch) \/ Includes(message, PNetwork)
        THEN NetworkText
        ELSE UnknownPrefix \o
             (IF MessageOf(error) # <<>> THEN MessageOf(error) ELSE NoDetails)

getApiErrorMessage(error, onLine) ==
    LET message == LoweredMessage(error)
    IN  IF ~onLine THEN OfflineText
        ELSE IF Includes(message, PApiKey) \/ Includes(message, PPermission)
        THEN AuthText
        ELSE IF Includes(message, PQuota) THEN QuotaText
        ELSE IF Includes(message, P500) \/ Includes(message, P503)
                \/ Includes(message, PServerError)
        THEN ServiceText
        ELSE IF Includes(message, PFetch) \/ Includes(message, PNetwork)
        THEN NetworkText
        ELSE UnknownPrefix \o
             (IF MessageOf(error) # <<>> THEN MessageOf(error) ELSE NoDetails)

(***************************************************************************)
(* parseResponse (lines 78-104).  The regular expression of line 80        *)
(* (three backticks, a greedy run of word characters, a line break, a      *)
(* lazy non-empty run of any characters, three backticks; global flag) is  *)
(* modelled by FenceAt and RegexExec: the greedy run of word characters    *)
(* cannot give a character back, since the next character must be the line *)
(* break, and the lazy interior ends at the first three backticks that     *)
(* leave it non-empty.                                                     *)
(***************************************************************************)
\* the backtick character (the module's string syntax has no backtick, so the
\* symbol "<bq>" stands for it)
BQ == "<bq>"

Fence == <<BQ, BQ, BQ>>

Plaintext == <<"p", "l", "a", "i", "n", "t", "e", "x", "t">>

TextPart(content) == [type |-> "text", content |-> content]

CodePart(language, content) == [type |-> "code", language |-> language, content |-> content]

ImagePart(imageUrl, prompt) == [type |-> "image", imageUrl |-> imageUrl, prompt |-> prompt]

\* index just after the maximal run of word characters that starts at i
RECURSIVE WordRunEnd(_, _)
WordRunEnd(text, i) ==
    IF i <= Len(text) /\ text[i] \in WordChars THEN WordRunEnd(text, i + 1) ELSE i

\* the closing fences available to a match whose interior starts at c
ClosersFrom(text, c) == {j \in (c + 1)..Len(text) : StartsAt(text, j, Fence)}

\* TRUE iff the regular expression matches with match.index = i - 1
FenceAt(text, i) ==
    /\ StartsAt(text, i, Fence)
    /\ LET nl == WordRunEnd(text, i + 3)
       IN  /\ nl <= Len(text)
           /\ text[nl] = "\n"
           /\ ClosersFrom(text, nl + 1) # {}

\* variant: the closing fence is optional, an unterminated region runs to
\* the end of the text
RegexExec_OpenEnded(text, from) ==
    LET opens == {i \in from..Len(text) :
                    /\ StartsAt(text, i, Fence)
                    /\ WordRunEnd(text, i + 3) < Len(text)
                    /\ text[WordRunEnd(text, i + 3)] = "\n"}
    IN  IF opens = {} THEN [found |-> FALSE]
        ELSE LET i  == SetMin(opens)
                 nl == WordRunEnd(text, i + 3)
                 j  == IF ClosersFrom(text, nl + 1) = {} THEN Len(text) + 1
                       ELSE SetMin(ClosersFrom(text, nl + 1))
             IN  [found |-> TRUE,
                  index |-> i,
                  tag |-> SubSeq(text, i + 3, nl - 1),
                  body |-> SubSeq(text, nl + 1, j - 1),
                  lastIndex |-> IF j > Len(text) THEN j ELSE j + 3]

\* regex.exec(text) with regex.lastIndex = from - 1: the match record, or
\* found = FALSE for null
RegexExec(text, from) ==
    LET starts == {i \in from..Len(text) : FenceAt(text, i)}
    IN  IF starts = {} THEN [found |-> FALSE]
        ELSE LET i  == SetMin(starts)
                 nl == WordRunEnd(text, i + 3)
                 j  == SetMin(ClosersFrom(text, nl + 1))
             IN  [found |-> TRUE,
                  index |-> i,
                  tag |-> SubSeq(text, i + 3, nl - 1),
                  body |-> SubSeq(text, nl + 1, j - 1),
                  lastIndex |-> j + 3]

\* variant: lines 99-101 left out, the text after the last fence is lost
RECURSIVE ParseLoop_DropsTail(_, _, _)
ParseLoop_DropsTail(text, lastIndex, parts) ==
    LET match == RegexExec(text, lastIndex)
    IN  IF match.found
        THEN LET before == IF match.index > lastIndex
                           THEN <<TextPart(SubSeq(text, lastIndex, match.index - 1))>>
                           ELSE <<>>
                 lang == IF ToLowerCase(match.tag) # <<>>
                         THEN ToLowerCase(match.tag) ELSE Plaintext
                 code == CodePart(lang, Trim(match.body))
             IN  ParseLoop_DropsTail(text, match.lastIndex, parts \o before \o <<code>>)
        ELSE parts

\* variant: the tests of lines 85 and 99 admit an empty substring
RECURSIVE ParseLoop_KeepsEmpty(_, _, _)
ParseLoop_KeepsEmpty(text, lastIndex, parts) ==
    LET match == RegexExec(text, lastIndex)
    IN  IF match.found
        THEN LET before == IF match.index >= lastIndex
                           THEN <<TextPart(SubSeq(text, lastIndex, match.index - 1))>>
                           ELSE <<>>
                 lang == IF ToLowerCase(match.tag) # <<>>
                         THEN ToLowerCase(match.tag) ELSE Plaintext
                 code == CodePart(lang, Trim(match.body))
             IN  ParseLoop_KeepsEmpty(text, match.lastIndex, parts \o before \o <<code>>)
        ELSE IF lastIndex <= Len(text) + 1
             THEN parts \o <<TextPart(SubSeq(text, lastIndex, Len(text)))>>
             ELSE parts

\* the while loop of lines 84-97 and the trailing text of lines 99-101;
\* lastIndex is 1-based: the index of the first character not yet consumed
RECURSIVE ParseLoop(_, _, _)
ParseLoop(text, lastIndex, parts) ==
    LET match == RegexExec(text, lastIndex)
    IN  IF match.found
        THEN LET before == IF match.index > lastIndex
                           THEN <<TextPart(SubSeq(text, lastIndex, match.index - 1))>>
                           ELSE <<>>
                 lang == IF ToLowerCase(match.tag) # <<>>
                         THEN ToLowerCase(match.tag) ELSE Plaintext
                 code == CodePart(lang, Trim(match.body))
             IN  ParseLoop(text, match.lastIndex, parts \o before \o <<code>>)
        ELSE IF lastIndex <= Len(text)
             THEN parts \o <<TextPart(SubSeq(text, lastIndex, Len(text)))>>
             ELSE parts

parseResponse(text) ==
    LET parts == ParseLoop(text, 1, <<>>)
    IN  IF Len(parts) > 0 THEN parts ELSE <<TextPart(text)>>

(***************************************************************************)
(* JSON.parse (line 397), for the JSON texts made of null, true, false,    *)
(* unsigned integers, strings without escapes, arrays and objects.  A      *)
(* parse result is [ok, val, next]; ok = FALSE stands for the SyntaxError. *)
(***************************************************************************)
JFail == [ok |-> FALSE]

JOk(val, next) == [ok |-> TRUE, val |-> val, next |-> next]

Undefined == [t |-> "undefined"]

RECURSIVE SkipWs(_, _)
SkipWs(s, i) == IF i <= Len(s) /\ s[i] \in WhiteSpace THEN SkipWs(s, i + 1) ELSE i

RECURSIVE DigitRunEnd(_, _)
DigitRunEnd(s, i) ==
    IF i <= Len(s) /\ s[i] \in DigitChars THEN DigitRunEnd(s, i + 1) ELSE i

\* a string literal whose opening quote is at i
JsonString(s, i) ==
    LET closers == {j \in (i + 1)..Len(s) : s[j] = "\""}
    IN  IF closers = {} THEN JFail
        ELSE LET j == SetMin(closers)
                 body == SubSeq(s, i + 1, j - 1)
             IN  IF \E k \in 1..Len(body) : body[k] \in {"\\", "\n", "\t", "\r"}
                 THEN JFail
                 ELSE JOk([t |-> "string", s |-> body], j + 1)

RECURSIVE JsonValue(_, _), JsonMembers(_, _, _, _), JsonElements(_, _, _, _)
JsonValue(s, i0) ==
    LET i == SkipWs(s, i0)
    IN  IF i > Len(s) THEN JFail
        ELSE IF StartsAt(s, i, <<"n", "u", "l", "l">>) THEN JOk([t |-> "null"], i + 4)
        ELSE IF StartsAt(s, i, <<"t", "r", "u", "e">>)
        THEN JOk([t |-> "boolean", b |-> TRUE], i + 4)
        ELSE IF StartsAt(s, i, <<"f", "a", "l", "s", "e">>)
        THEN JOk([t |-> "boolean", b |-> FALSE], i + 5)
        ELSE IF s[i] \in DigitChars
        THEN LET e == IF s[i] = "0" THEN i + 1 ELSE DigitRunEnd(s, i)
             IN  JOk([t |-> "number", digits |-> SubSeq(s, i, e - 1)], e)
        ELSE IF s[i] = "\"" THEN JsonString(s, i)
        ELSE IF s[i] = "{" THEN JsonMembers(s, i + 1, <<>>, TRUE)
        ELSE IF s[i] = "[" THEN JsonElements(s, i + 1, <<>>, TRUE)
        ELSE JFail

\* the members of an object, from just after "{" or ","
JsonMembers(s, i0, acc, first) ==
    LET i == SkipWs(s, i0)
    IN  IF i > Len(s) THEN JFail
        ELSE IF first /\ s[i] = "}" THEN JOk([t |-> "object", members |-> acc], i + 1)
        ELSE IF s[i] # "\"" THEN JFail
        ELSE LET key == JsonString(s, i)
             IN  IF ~key.ok THEN JFail
                 ELSE LET c == SkipWs(s, key.next)
                      IN  IF c > Len(s) \/ s[c] # ":" THEN JFail
                          ELSE LET v == JsonValue(s, c + 1)
                               IN  IF ~v.ok THEN JFail
                                   ELSE LET n == SkipWs(s, v.next)
                                            acc2 == Append(acc, <<key.val.s, v.val>>)
                                        IN  IF n > Len(s) THEN JFail
                                            ELSE IF s[n] = "}"
                                            THEN JOk([t |-> "object", members |-> acc2], n + 1)
                                            ELSE IF s[n] = ","
                                            THEN JsonMembers(s, n + 1, acc2, FALSE)
                                            ELSE JFail

\* the elements of an array, from just after "[" or ","
JsonElements(s, i0, acc, first) ==
    LET i == SkipWs(s, i0)
    IN  IF i > Len(s) THEN JFail
        ELSE IF first /\ s[i] = "]" THEN JOk([t |-> "array", elements |-> acc], i + 1)
        ELSE LET v == JsonValue(s, i)
             IN  IF ~v.ok THEN JFail
                 ELSE LET n == SkipWs(s, v.next)
                          acc2 == Append(acc, v.val)
                      IN  IF n > Len(s) THEN JFail
                          ELSE IF s[n] = "]"
                          THEN JOk([t |-> "array", elements |-> acc2], n + 1)
                          ELSE IF s[n] = "," THEN JsonElements(s, n + 1, acc2, FALSE)
                          ELSE JFail

JsonParse(s) ==
    LET r == JsonValue(s, 1)
    IN  IF r.ok /\ SkipWs(s, r.next) = Len(s) + 1 THEN r ELSE JFail

\* variant: the field name misspelt
ImagePromptKey_Typo == <<"i", "m", "a", "g", "e", "P", "r", "o", "m", "p", "t">>

ImagePromptKey == <<"i", "m", "a", "g", "e", "_", "p", "r", "o", "m", "p", "t">>

\* value.image_prompt for a non-null value: the last member of that name of
\* an object, undefined for anything else
GetImagePrompt(val) ==
    IF val.t # "object" THEN Undefined
    ELSE LET hits == {k \in 1..Len(val.members) : val.members[k][1] = ImagePromptKey}
         IN  IF hits = {} THEN Undefined ELSE val.members[SetMax(hits)][2]

\* JavaScript truthiness
Truthy(v) ==
    CASE v.t = "undefined" -> FALSE
      [] v.t = "null"      -> FALSE
      [] v.t = "boolean"   -> v.b
      [] v.t = "number"    -> v.digits # <<"0">>
      [] v.t = "string"    -> v.s # <<>>
      [] OTHER             -> TRUE

\* the text a template literal makes of an image_prompt value
PromptText(p) == IF p.t = "string" THEN p.s ELSE IF p.t = "number" THEN p.digits ELSE <<>>

\* variant: the typeof test of line 400 left out
ClassifyReply_NoTypeCheck(responseText) ==
    LET parsed == JsonParse(responseText)
    IN  IF ~parsed.ok THEN [isJson |-> FALSE]
        ELSE IF parsed.val.t = "null" THEN [isJson |-> FALSE]
        ELSE LET p == GetImagePrompt(parsed.val)
             IN  IF Truthy(p)
                 THEN [isJson |-> TRUE, prompt |-> PromptText(p)]
                 ELSE [isJson |-> FALSE]

\* lines 395-407: the inner try block of handleSubmit up to the decision
\* isJson; a SyntaxError of JSON.parse and the TypeError of reading a
\* property of null both end in the empty catch with isJson = false
ClassifyReply(responseText) ==
    LET parsed == JsonParse(responseText)
    IN  IF ~parsed.ok THEN [isJson |-> FALSE]
        ELSE IF parsed.val.t = "null" THEN [isJson |-> FALSE]
        ELSE LET p == GetImagePrompt(parsed.val)
             IN  IF Truthy(p) /\ p.t = "string"
                 THEN [isJson |-> TRUE, prompt |-> p.s]
                 ELSE [isJson |-> FALSE]

(***************************************************************************)
(* Inputs of the environment: what the user types, what the recognizer     *)
(* hears, what the remote services answer.                                 *)
(***************************************************************************)
NoValue == [t |-> "none"]

\* values of the text field: empty, blank, and a text with a leading blank
Drafts == {<<>>, <<" ">>, <<" ", "h", "i">>}

\* joined transcripts of a result event
Transcripts == {<<" ", "h", "i">>}

ReplyOk == <<" ", "o", "k", "\n">>

ReplyFenced == <<"A", " ", BQ, BQ, BQ, "J", "S", "\n", " ", "x", " ", "\n", BQ, BQ, BQ, " ", "b">>

ReplyDirective == <<" ", "{", "\"", "i", "m", "a", "g", "e", "_", "p", "r", "o", "m", "p", "t", "\"", ":", " ", "\"", "f", "o", "x", "\"", "}", "\n">>

ReplyEmptyPrompt == <<"{", "\"", "i", "m", "a", "g", "e", "_", "p", "r", "o", "m", "p", "t", "\"", ":", "\"", "\"", "}">>

ReplyBlank == <<" ">>

ReplyNull == <<"n", "u", "l", "l">>

ReplyNumber == <<"7">>

ReplyNoPrompt == <<"{", "}">>

ReplyNumberPrompt == <<"{", "\"", "i", "m", "a", "g", "e", "_", "p", "r", "o", "m", "p", "t", "\"", ":", "7", "}">>

\* response.text is a string or undefined
Responses ==
    {[defined |-> TRUE, text |-> t] :
        t \in {ReplyOk, ReplyFenced, ReplyDirective, ReplyEmptyPrompt, ReplyBlank,
               ReplyNull, ReplyNumber, ReplyNoPrompt, ReplyNumberPrompt}}
    \cup {[defined |-> FALSE, text |-> <<>>]}

ErrorOf(text) == [kind |-> "Error", text |-> text]

FetchFailed == ErrorOf(<<"f", "e", "t", "c", "h", " ", "f", "a", "i", "l", "e", "d">>)

\* the errors the remote calls reject with
RemoteErrors == {FetchFailed}

\* new Error("No image data received.")   (line 353)
NoImageData == ErrorOf(<<"N", "o", " ", "i", "m", "a", "g", "e", " ", "d", "a", "t", "a", " ", "r", "e", "c", "e", "i", "v", "e", "d", ".">>)

\* response.generatedImages[0].image.imageBytes, or NoValue when any link
\* of that chain is missing
ImageResults == {[t |-> "bytes", bytes |-> <<"/9j/4AAQ">>], NoValue}

(***************************************************************************)
(* Messages.                                                               *)
(***************************************************************************)
Message(role, parts) == [role |-> role, parts |-> parts]

Processing == <<"Processing...">>

ConfigErrorText == <<"Configuration Error: The API key is missing. Please ensure it is set up correctly in your environment.">>

InitErrorPrefix == <<"Error: Could not initialize the AI. ">>

ImageSorry == <<"Sorry, I couldn't create the image. ">>

TurnSorry == <<"Sorry, something went wrong. ">>

DataUrlPrefix == <<"data:image/jpeg;base64,">>

GeneratingText(prompt) == <<"Generating image of \"">> \o prompt \o <<"\"...">>

UserCount(msgs) == Cardinality({i \in 1..Len(msgs) : msgs[i].role = "user"})

(***************************************************************************)
(* The text-to-speech effect (lines 319-334).  It runs after every render  *)
(* in which messages or isTtsEnabled changed; q is the synthesizer queue   *)
(* the handler left behind, the result is the queue after the effect.      *)
(***************************************************************************)
\* lastMessage.parts.filter(text and non-blank).map(content)
RECURSIVE SpeakableTexts(_)
SpeakableTexts(parts) ==
    IF parts = <<>> THEN <<>>
    ELSE LET rest == SpeakableTexts(Tail(parts))
             part == Head(parts)
         IN  IF part.type = "text" /\ Trim(part.content) # <<>>
             THEN <<part.content>> \o rest
             ELSE rest

TextToSpeak(message) == JoinSpace(SpeakableTexts(message.parts))

TtsEffect(msgs, enabled, supported, q) ==
    IF ~enabled \/ ~supported \/ Len(msgs) = 0 THEN q
    ELSE LET lastMessage == msgs[Len(msgs)]
         IN  IF lastMessage.role = "ai" /\ TextToSpeak(lastMessage) # <<>>
             THEN Append(q, TextToSpeak(lastMessage))
             ELSE q

\* variant: line 380 / line 434 left out
CancelIfSupported_Never(supported, q) == q

\* window.speechSynthesis.cancel() behind the isTtsSupported test
CancelIfSupported(supported, q) == IF supported THEN <<>> ELSE q

\* recognitionRef.current?.stop(): a capturing recognizer starts to stop
RecStop(r) == IF r = "capturing" THEN "stopping" ELSE r

\* variant: line 379 left out
StopIfListening_Never(listening, r) == r

\* line 379: if (isListening) recognitionRef.current?.stop()
StopIfListening(listening, r) == IF listening THEN RecStop(r) ELSE r

\* variant: lines 446-448 left out
CancelIfEnabled_Never(enabled, q) == q

\* lines 446-448: if (isTtsEnabled) window.speechSynthesis.cancel()
CancelIfEnabled(enabled, q) == IF enabled THEN <<>> ELSE q

(***************************************************************************)
(* initializeChat (lines 250-291), run once by the mount effect.           *)
(***************************************************************************)
InitializeChat(outcome, error, onLine) ==
    CASE outcome = "noKey" ->
            [messages |-> <<Message("ai", <<TextPart(ConfigErrorText)>>)>>,
             ai |-> FALSE, chat |-> FALSE]
      [] outcome = "ok" ->
            [messages |-> <<>>, ai |-> TRUE, chat |-> TRUE]
      [] outcome = "constructorThrows" ->
            [messages |-> <<Message("ai", <<TextPart(InitErrorPrefix \o
                                getApiErrorMessage(error, onLine))>>)>>,
             ai |-> FALSE, chat |-> FALSE]
      [] outcome = "createThrows" ->
            [messages |-> <<Message("ai", <<TextPart(InitErrorPrefix \o
                                getApiErrorMessage(error, onLine))>>)>>,
             ai |-> TRUE, chat |-> FALSE]

InitOutcomes == {"noKey", "ok", "constructorThrows", "createThrows"}

\* the CodeBlock state of lines 107-108 and the untouched console
SandboxInit ==
    /\ consoleLog = "original"
    /\ output = <<>>
    /\ runError = [t |-> "null"]
    /\ uncaught = [t |-> "none"]

Init ==
    /\ \E outcome \in InitOutcomes, error \in RemoteErrors, onLine \in BOOLEAN :
          LET st == InitializeChat(outcome, error, onLine)
          IN  /\ messages = st.messages
              /\ ai = st.ai
              /\ chat = st.chat
    /\ input = <<>>
    /\ isLoading = FALSE
    /\ loadingText = Processing
    /\ isListening = FALSE
    /\ isTtsEnabled = FALSE
    /\ isSpeechSupported \in BOOLEAN
    /\ isTtsSupported \in BOOLEAN
    /\ pc = "idle"
    /\ chatRequest = NoValue
    /\ chatResult = NoValue
    /\ imageRequest = NoValue
    /\ recState = "inactive"
    /\ synth = <<>>
    /\ parseCalls = <<>>
    /\ SandboxInit
    /\ fnIn = NoValue
    /\ fnOut = NoValue

\* the capabilities and the created handles never change after mount, and
\* the handlers of App touch neither the console nor the state of a CodeBlock
Fixed == <<chat, ai, isSpeechSupported, isTtsSupported, consoleLog, output, runError,
           uncaught, fnIn, fnOut>>

(***************************************************************************)
(* handleSubmit (lines 376-430) and handleImageGeneration (lines 336-374). *)
(***************************************************************************)
\* variant: the isLoading test of line 378 left out
SubmitRejected_NoLoadingCheck == Trim(input) = <<>> \/ ~chat

\* variant: the session test of line 378 left out
SubmitRejected_NoChatCheck == Trim(input) = <<>> \/ isLoading

\* the guard of line 378
SubmitRejected == Trim(input) = <<>> \/ isLoading \/ ~chat

\* lines 376-393: from the submit event to the await of chat.sendMessage
HandleSubmit ==
    /\ SubmitRejected \/ UserCount(messages) < MaxTurns
    /\ IF SubmitRejected
       THEN UNCHANGED vars
       ELSE /\ recState' = StopIfListening(isListening, recState)
            /\ messages' = Append(messages, Message("user", <<TextPart(input)>>))
            /\ input' = <<>>
            /\ isLoading' = TRUE
            /\ loadingText' = Processing
            /\ chatRequest' = [t |-> "sendMessage", message |-> input]
            /\ chatResult' = NoValue
            /\ pc' = "awaitChat"
            /\ synth' = TtsEffect(messages', isTtsEnabled, isTtsSupported,
                                  CancelIfSupported(isTtsSupported, synth))
            /\ UNCHANGED <<isListening, isTtsEnabled, imageRequest, parseCalls, Fixed>>

\* lines 393-413 and 427-429, with lines 336-338 of handleImageGeneration:
\* chat.sendMessage resolves
ChatResolve ==
    /\ pc = "awaitChat"
    /\ \E response \in Responses :
          LET responseText == Trim(IF response.defined THEN response.text ELSE <<>>)
              c == ClassifyReply(responseText)
          IN  /\ chatResult' = [t |-> "response", response |-> response]
              /\ IF c.isJson
                 THEN IF ~ai
                      THEN /\ isLoading' = FALSE
                           /\ pc' = "idle"
                           /\ UNCHANGED <<messages, loadingText, imageRequest,
                                          parseCalls, synth>>
                      ELSE /\ loadingText' = GeneratingText(c.prompt)
                           /\ imageRequest' = [t |-> "generateImages", prompt |-> c.prompt]
                           /\ pc' = "awaitImage"
                           /\ UNCHANGED <<messages, isLoading, parseCalls, synth>>
                 ELSE /\ parseCalls' = Append(parseCalls, responseText)
                      /\ messages' = Append(messages,
                                            Message("ai", parseResponse(responseText)))
                      /\ isLoading' = FALSE
                      /\ pc' = "idle"
                      /\ synth' = TtsEffect(messages', isTtsEnabled, isTtsSupported, synth)
                      /\ UNCHANGED <<loadingText, imageRequest>>
    /\ chatRequest' = NoValue
    /\ UNCHANGED <<input, isListening, isTtsEnabled, recState, Fixed>>

\* variant: the catch block of lines 414-426 appends nothing
ChatReject_Silent ==
    /\ pc = "awaitChat"
    /\ \E error \in RemoteErrors : chatResult' = [t |-> "error", error |-> error]
    /\ isLoading' = FALSE
    /\ pc' = "idle"
    /\ chatRequest' = NoValue
    /\ UNCHANGED <<messages, synth, input, loadingText, isListening, isTtsEnabled,
                   imageRequest, recState, parseCalls, Fixed>>

\* lines 414-429: chat.sendMessage rejects
ChatReject ==
    /\ pc = "awaitChat"
    /\ \E error \in RemoteErrors, onLine \in BOOLEAN :
          /\ chatResult' = [t |-> "error", error |-> error]
          /\ messages' = Append(messages,
                Message("ai", <<TextPart(TurnSorry \o getApiErrorMessage(error, onLine))>>))
    /\ isLoading' = FALSE
    /\ pc' = "idle"
    /\ chatRequest' = NoValue
    /\ synth' = TtsEffect(messages', isTtsEnabled, isTtsSupported, synth)
    /\ UNCHANGED <<input, loadingText, isListening, isTtsEnabled, imageRequest,
                   recState, parseCalls, Fixed>>

\* variant: the image message also carries the prompt as a Text part
ImageMessage_WithCaption(prompt, result, onLine) ==
    IF result.t = "bytes"
    THEN Message("ai", <<ImagePart(DataUrlPrefix \o result.bytes, prompt), TextPart(prompt)>>)
    ELSE LET error == IF result.t = "rejected" THEN result.error ELSE NoImageData
         IN  Message("ai", <<TextPart(ImageSorry \o getApiErrorMessage(error, onLine))>>)

\* the Assistant message handleImageGeneration appends (lines 345-372) for
\* a settled generateImages call: result is the image bytes, NoValue for a
\* response without bytes, or [t |-> "rejected", error |-> e]
ImageMessage(prompt, result, onLine) ==
    IF result.t = "bytes"
    THEN Message("ai", <<ImagePart(DataUrlPrefix \o result.bytes, prompt)>>)
    ELSE LET error == IF result.t = "rejected" THEN result.error ELSE NoImageData
         IN  Message("ai", <<TextPart(ImageSorry \o getApiErrorMessage(error, onLine))>>)

\* variant: the finally block of lines 427-429 is skipped on the image path
ImageSettle_NoFinally ==
    /\ pc = "awaitImage"
    /\ \E result \in ImageResults \cup {[t |-> "rejected", error |-> e] : e \in RemoteErrors},
          onLine \in BOOLEAN :
          messages' = Append(messages, ImageMessage(imageRequest.prompt, result, onLine))
    /\ pc' = "idle"
    /\ imageRequest' = NoValue
    /\ synth' = TtsEffect(messages', isTtsEnabled, isTtsSupported, synth)
    /\ UNCHANGED <<isLoading, input, loadingText, isListening, isTtsEnabled, chatRequest,
                   chatResult, recState, parseCalls, Fixed>>

\* variant: the catch block of lines 360-372 appends nothing
ImageSettle_SilentFailure ==
    /\ pc = "awaitImage"
    /\ \E result \in ImageResults \cup {[t |-> "rejected", error |-> e] : e \in RemoteErrors},
          onLine \in BOOLEAN :
          messages' = IF result.t = "bytes"
                      THEN Append(messages, ImageMessage(imageRequest.prompt, result, onLine))
                      ELSE messages
    /\ isLoading' = FALSE
    /\ pc' = "idle"
    /\ imageRequest' = NoValue
    /\ synth' = TtsEffect(messages', isTtsEnabled, isTtsSupported, synth)
    /\ UNCHANGED <<input, loadingText, isListening, isTtsEnabled, chatRequest, chatResult,
                   recState, parseCalls, Fixed>>

\* lines 340-373, then lines 409 and 427-429 of handleSubmit:
\* ai.models.generateImages settles
ImageSettle ==
    /\ pc = "awaitImage"
    /\ \E result \in ImageResults \cup {[t |-> "rejected", error |-> e] : e \in RemoteErrors},
          onLine \in BOOLEAN :
          messages' = Append(messages, ImageMessage(imageRequest.prompt, result, onLine))
    /\ isLoading' = FALSE
    /\ pc' = "idle"
    /\ imageRequest' = NoValue
    /\ synth' = TtsEffect(messages', isTtsEnabled, isTtsSupported, synth)
    /\ UNCHANGED <<input, loadingText, isListening, isTtsEnabled, chatRequest, chatResult,
                   recState, parseCalls, Fixed>>

(***************************************************************************)
(* Speech capture: handleListen (lines 432-442) and the recognizer's       *)
(* callbacks (lines 298-307).                                              *)
(***************************************************************************)
\* variant: the stop branch of line 436 also clears the listening flag
HandleListen_ClearsFlag ==
    IF ~isSpeechSupported
    THEN UNCHANGED vars
    ELSE /\ synth' = CancelIfSupported(isTtsSupported, synth)
         /\ IF isListening
            THEN /\ recState' = RecStop(recState)
                 /\ isListening' = FALSE
                 /\ UNCHANGED input
            ELSE /\ input' = <<>>
                 /\ recState' = "capturing"
                 /\ isListening' = TRUE
         /\ UNCHANGED <<messages, isLoading, loadingText, isTtsEnabled, pc,
                        chatRequest, chatResult, imageRequest, parseCalls, Fixed>>

HandleListen ==
    IF ~isSpeechSupported
    THEN UNCHANGED vars
    ELSE /\ synth' = CancelIfSupported(isTtsSupported, synth)
         /\ IF isListening
            THEN /\ recState' = RecStop(recState)
                 /\ UNCHANGED <<input, isListening>>
            ELSE /\ input' = <<>>
                 /\ recState' = "capturing"
                 /\ isListening' = TRUE
         /\ UNCHANGED <<messages, isLoading, loadingText, isTtsEnabled, pc,
                        chatRequest, chatResult, imageRequest, parseCalls, Fixed>>

\* recognition.onresult (lines 298-304): the joined transcript replaces the
\* draft; a stopping recognizer still delivers the result for the audio it
\* has
RecognitionResult ==
    /\ recState \in {"capturing", "stopping"}
    /\ \E transcript \in Transcripts : input' = transcript
    /\ UNCHANGED <<messages, isLoading, loadingText, isListening, isTtsEnabled, pc,
                   chatRequest, chatResult, imageRequest, recState, synth, parseCalls, Fixed>>

\* variant: onerror also reports the failure in the log
RecognitionError_Reports ==
    /\ recState \in {"capturing", "stopping"}
    /\ recState' = "errored"
    /\ messages' = Append(messages, Message("ai", <<TextPart(TurnSorry)>>))
    /\ synth' = TtsEffect(messages', isTtsEnabled, isTtsSupported, synth)
    /\ UNCHANGED <<input, isLoading, loadingText, isListening, isTtsEnabled,
                   pc, chatRequest, chatResult, imageRequest, parseCalls, Fixed>>

\* recognition.onerror (lines 305-306): only logs; the platform delivers
\* the end event afterwards
RecognitionError ==
    /\ recState \in {"capturing", "stopping"}
    /\ recState' = "errored"
    /\ UNCHANGED <<messages, input, isLoading, loadingText, isListening, isTtsEnabled,
                   pc, chatRequest, chatResult, imageRequest, synth, parseCalls, Fixed>>

\* recognition.onend (line 307)
RecognitionEnd ==
    /\ recState \in {"capturing", "stopping", "errored"}
    /\ recState' = "inactive"
    /\ isListening' = FALSE
    /\ UNCHANGED <<messages, input, isLoading, loadingText, isTtsEnabled, pc,
                   chatRequest, chatResult, imageRequest, synth, parseCalls, Fixed>>

(***************************************************************************)
(* Speech output: handleTtsToggle (lines 444-450) and the synthesizer.     *)
(***************************************************************************)
HandleTtsToggle ==
    IF ~isTtsSupported
    THEN UNCHANGED vars
    ELSE /\ isTtsEnabled' = ~isTtsEnabled
         /\ synth' = TtsEffect(messages, isTtsEnabled', isTtsSupported,
                               CancelIfEnabled(isTtsEnabled, synth))
         /\ UNCHANGED <<messages, input, isLoading, loadingText, isListening, pc,
                        chatRequest, chatResult, imageRequest, recState, parseCalls, Fixed>>

\* the synthesizer finishes the utterance at the head of its queue
UtteranceEnd ==
    /\ synth # <<>>
    /\ synth' = Tail(synth)
    /\ UNCHANGED <<messages, input, isLoading, loadingText, isListening, isTtsEnabled,
                   pc, chatRequest, chatResult, imageRequest, recState, parseCalls, Fixed>>

\* onChange of the text field (lines 534-541), disabled while loading or
\* without a session
TypeInput ==
    /\ ~(isLoading \/ ~chat)
    /\ \E value \in Drafts : input' = value
    /\ UNCHANGED <<messages, isLoading, loadingText, isListening, isTtsEnabled, pc,
                   chatRequest, chatResult, imageRequest, recState, synth, parseCalls, Fixed>>

Next ==
    \/ HandleSubmit
    \/ ChatResolve
    \/ ChatReject
    \/ ImageSettle
    \/ HandleListen
    \/ RecognitionResult
    \/ RecognitionError
    \/ RecognitionEnd
    \/ HandleTtsToggle
    \/ UtteranceEnd
    \/ TypeInput

Spec == Init /\ [][Next]_vars

\* the recognizer delivers the end event of every capture it started
ListenSpec == Spec /\ WF_vars(RecognitionEnd)

\* the remote calls settle: every outstanding chat.sendMessage or
\* generateImages promise is eventually resolved or rejected
LiveSpec == Spec /\ WF_vars(ChatResolve \/ ChatReject) /\ WF_vars(ImageSettle)

(***************************************************************************)
(* getApiErrorMessage applied to the failures of the input set below.      *)
(***************************************************************************)
ErrorPhrases ==
    << <<"A", "P", "I", " ", "k", "e", "y", " ", "n", "o", "t", " ", "v", "a", "l", "i", "d">>,
       <<"P", "e", "r", "m", "i", "s", "s", "i", "o", "n", " ", "D", "e", "n", "i", "e", "d">>,
       <<"Q", "U", "O", "T", "A">>,
       <<"5", "0", "0">>,
       <<"5", "0", "3">>,
       <<"S", "e", "r", "v", "e", "r", " ", "E", "r", "r", "o", "r">>,
       <<"F", "a", "i", "l", "e", "d", " ", "t", "o", " ", "f", "e", "t", "c", "h">>,
       <<"N", "e", "t", "w", "o", "r", "k">>,
       <<"5", "0", "2">>,
       <<"o", "o", "p", "s">> >>

\* the texts made of at most n phrases, separated by one space
RECURSIVE ErrorTexts(_)
ErrorTexts(n) ==
    IF n = 0 THEN {<<>>}
    ELSE LET shorter == ErrorTexts(n - 1)
         IN  shorter \cup {IF t = <<>> THEN ErrorPhrases[i] ELSE t \o <<" ">> \o ErrorPhrases[i] :
                              t \in shorter, i \in 1..Len(ErrorPhrases)}

ErrorInputs ==
    {[error |-> [kind |-> k, text |-> t], onLine |-> o] :
        k \in {"Error", "string"}, t \in ErrorTexts(MaxPhrases), o \in BOOLEAN}

ClassifyInit ==
    /\ LET st == InitializeChat("ok", FetchFailed, TRUE)
       IN  /\ messages = st.messages
           /\ ai = st.ai
           /\ chat = st.chat
    /\ input = <<>>
    /\ isLoading = FALSE
    /\ loadingText = Processing
    /\ isListening = FALSE
    /\ isTtsEnabled = FALSE
    /\ isSpeechSupported = TRUE
    /\ isTtsSupported = TRUE
    /\ pc = "idle"
    /\ chatRequest = NoValue
    /\ chatResult = NoValue
    /\ imageRequest = NoValue
    /\ recState = "inactive"
    /\ synth = <<>>
    /\ parseCalls = <<>>
    /\ SandboxInit
    /\ fnIn \in ErrorInputs
    /\ fnOut = NoValue

Classify ==
    /\ fnIn # NoValue
    /\ fnOut = NoValue
    /\ fnOut' = [t |-> "text", text |-> getApiErrorMessage(fnIn.error, fnIn.onLine)]
    /\ UNCHANGED <<messages, input, isLoading, loadingText, chat, ai, isListening,
                   isTtsEnabled, isSpeechSupported, isTtsSupported, pc, chatRequest,
                   chatResult, imageRequest, recState, synth, parseCalls, consoleLog,
                   output, runError, uncaught, fnIn>>

ClassifySpec == ClassifyInit /\ [][Classify]_vars

(***************************************************************************)
(* Properties.                                                             *)
(***************************************************************************)
LastMessage(msgs) == msgs[Len(msgs)]

AiCount(msgs) == Cardinality({i \in 1..Len(msgs) : msgs[i].role = "ai"})

\* a submit that line 378 lets through
SubmitAccepted == HandleSubmit /\ ~isLoading /\ Trim(input) # <<>> /\ chat

\* C1: a submit issued while a turn is in flight, or with a blank draft, or
\* without a session handle, leaves the log, the phase, the draft, the
\* listening flag and the speech in progress as they were.
C1_RejectedSubmitIsNoOp ==
    [][(HandleSubmit /\ (isLoading \/ Trim(input) = <<>> \/ ~chat))
          => UNCHANGED <<messages, isLoading, pc, input, isListening, synth>>]_vars

\* a turn is in flight and the draft is non-blank (a recognition result put
\* it there), so that a submit is rejected by the isLoading test alone
C1_Witness == isLoading /\ chat /\ Trim(input) # <<>>

\* C2: the log only grows, by one message per step; an accepted submit
\* appends one User message, the resolution of the turn appends one
\* Assistant message, and no other step touches the log.
C2_LogAppendOnly ==
    [][/\ Len(messages') >= Len(messages)
       /\ SubSeq(messages', 1, Len(messages)) = messages
       /\ Len(messages') <= Len(messages) + 1
       /\ (~isLoading /\ isLoading')
            => /\ Len(messages') = Len(messages) + 1
               /\ LastMessage(messages').role = "user"
       /\ (isLoading /\ ~isLoading')
            => /\ Len(messages') = Len(messages) + 1
               /\ LastMessage(messages').role = "ai"
       /\ (isLoading' = isLoading) => messages' = messages]_vars

\* two turns are complete, the second one resolved by a failure message
C2_Witness ==
    /\ ~isLoading
    /\ Len(messages) = 4
    /\ messages[3].role = "user"
    /\ messages[4].role = "ai"
    /\ messages[4].parts[1].type = "text"
    /\ StartsAt(messages[4].parts[1].content, 1, TurnSorry)

\* C3: when the remote calls settle, every turn in flight ends with the
\* phase back at Idle.
C3_TurnReturnsToIdle == isLoading ~> (~isLoading /\ pc = "idle")

\* the phase is Idle again after an image-generation failure
C3_Witness ==
    /\ ~isLoading
    /\ pc = "idle"
    /\ Len(messages) >= 2
    /\ LastMessage(messages).parts[1].type = "text"
    /\ StartsAt(LastMessage(messages).parts[1].content, 1, ImageSorry)

\* C4: an accepted submit, in one step, requests the stop of an active
\* capture, cancels the speech in progress, appends a User message whose
\* single Text part is the draft, clears the draft, sets the phase to
\* AwaitingReply and dispatches that same text.
C4_AcceptedSubmit ==
    [][SubmitAccepted
          => /\ (recState = "capturing" => recState' = "stopping")
             /\ synth' = <<>>
             /\ messages' = Append(messages,
                    [role |-> "user", parts |-> <<[type |-> "text", content |-> input]>>])
             /\ input' = <<>>
             /\ isLoading' /\ pc' = "awaitChat"
             /\ chatRequest' = [t |-> "sendMessage", message |-> input]]_vars

\* a submit was accepted while the capture was running: the reply is
\* awaited and the recognizer has been asked to stop
C4_Witness ==
    /\ pc = "awaitChat"
    /\ recState = "stopping"
    /\ chatRequest # NoValue
    /\ LastMessage(messages).role = "user"
    /\ input = <<>>

\* every message with an Image part has that part only
ImageMessagesAreSingle ==
    \A i \in 1..Len(messages) :
        (\E k \in 1..Len(messages[i].parts) : messages[i].parts[k].type = "image")
            => Len(messages[i].parts) = 1

\* C5: on the directive path parseResponse is not called, and the Assistant
\* message of the turn is one Image part carrying the directive's prompt or
\* one Text part with the image-failure apology; a message with an Image
\* part has exactly one part.
C5_DirectivePathExclusive ==
    [][/\ (pc = "awaitChat" /\ pc' = "awaitImage")
            => /\ parseCalls' = parseCalls
               /\ messages' = messages
       /\ (pc = "awaitImage" /\ pc' # "awaitImage")
            => /\ parseCalls' = parseCalls
               /\ Len(messages') = Len(messages) + 1
               /\ LET m == LastMessage(messages')
                  IN  /\ m.role = "ai"
                      /\ Len(m.parts) = 1
                      /\ \/ /\ m.parts[1].type = "image"
                            /\ m.parts[1].prompt = imageRequest.prompt
                            /\ m.parts[1].prompt =
                                 ClassifyReply(Trim(chatResult.response.text)).prompt
                         \/ /\ m.parts[1].type = "text"
                            /\ StartsAt(m.parts[1].content, 1, ImageSorry)
       /\ ImageMessagesAreSingle']_vars

\* a directive turn ended with an image message, and no text was parsed
C5_Witness ==
    /\ Len(messages) >= 2
    /\ LastMessage(messages).parts[1].type = "image"
    /\ parseCalls = <<>>
    /\ pc = "idle"

\* C6: switching speech output on starts no utterance.
C6_ToggleOnIsSilent ==
    [][(HandleTtsToggle /\ ~isTtsEnabled /\ isTtsEnabled') => synth' = synth]_vars

\* C7: the synthesizer holds at most one utterance.
C7_AtMostOneUtterance == Len(synth) <= 1

\* the reply of a second turn is being spoken
C7_Witness ==
    /\ Len(synth) = 1
    /\ isTtsEnabled
    /\ AiCount(messages) >= 2
    /\ LastMessage(messages).role = "ai"
    /\ synth[1] = TextToSpeak(LastMessage(messages))

\* C8: switching speech output off, an accepted submit and the start of a
\* capture each leave no utterance in progress.
C8_CancellingActions ==
    [][(\/ HandleTtsToggle /\ isTtsEnabled /\ ~isTtsEnabled'
        \/ SubmitAccepted
        \/ HandleListen /\ ~isListening /\ isListening')
          => synth' = <<>>]_vars

\* an utterance is in progress while each of the three actions can be taken
C8_Witness ==
    /\ synth # <<>>
    /\ isTtsEnabled
    /\ isSpeechSupported /\ ~isListening
    /\ ~isLoading /\ chat /\ Trim(input) # <<>> /\ UserCount(messages) < MaxTurns

\* the reply text, trimmed, is an object with a string image_prompt
HasStringImagePrompt(text) ==
    LET r == JsonParse(Trim(text))
    IN  /\ r.ok
        /\ r.val.t = "object"
        /\ \E k \in 1..Len(r.val.members) :
              /\ r.val.members[k][1] = <<"i", "m", "a", "g", "e", "_", "p", "r", "o", "m", "p", "t">>
              /\ r.val.members[k][2].t = "string"

\* the same with a non-empty string
HasNonEmptyImagePrompt(text) ==
    LET r == JsonParse(Trim(text))
    IN  /\ r.ok
        /\ r.val.t = "object"
        /\ \E k \in 1..Len(r.val.members) :
              /\ r.val.members[k][1] = <<"i", "m", "a", "g", "e", "_", "p", "r", "o", "m", "p", "t">>
              /\ r.val.members[k][2].t = "string"
              /\ r.val.members[k][2].s # <<>>

\* the chat call resolves in this step with a reply text
ReplyArrives ==
    /\ pc = "awaitChat"
    /\ chatResult'.t = "response"
    /\ chatResult'.response.defined

\* C9 as stated: a reply that is an object with a string image_prompt takes
\* the image-generation branch, whatever the string.
C9_AnyStringPromptIsDirective ==
    [][(ReplyArrives /\ HasStringImagePrompt(chatResult'.response.text))
          => pc' = "awaitImage"]_vars

\* C9, amended: a reply that is an object with a non-empty string
\* image_prompt takes the image-generation branch, with that string as the
\* prompt.
C9_NonEmptyStringPromptIsDirective ==
    [][(ReplyArrives /\ HasNonEmptyImagePrompt(chatResult'.response.text))
          => /\ pc' = "awaitImage"
             /\ imageRequest'.t = "generateImages"
             /\ imageRequest'.prompt # <<>>
             /\ HasStringImagePrompt(chatResult'.response.text)
             /\ parseCalls' = parseCalls]_vars

\* the image generation for the prompt of a directive reply is under way
C9_Witness ==
    /\ pc = "awaitImage"
    /\ chatResult.t = "response"
    /\ HasNonEmptyImagePrompt(chatResult.response.text)
    /\ imageRequest.prompt = <<"f", "o", "x">>

\* the predicates of the classifier, on the failure text in lower case
Lowered(x) == ToLowerCase(x.error.text)

MentionsCredential(x) ==
    \/ Includes(Lowered(x), <<"a", "p", "i", " ", "k", "e", "y", " ", "n", "o", "t", " ", "v", "a", "l", "i", "d">>)
    \/ Includes(Lowered(x), <<"p", "e", "r", "m", "i", "s", "s", "i", "o", "n", " ", "d", "e", "n", "i", "e", "d">>)

MentionsQuota(x) == Includes(Lowered(x), <<"q", "u", "o", "t", "a">>)

MentionsServerError(x) ==
    \/ Includes(Lowered(x), <<"5", "0", "0">>)
    \/ Includes(Lowered(x), <<"5", "0", "3">>)
    \/ Includes(Lowered(x), <<"s", "e", "r", "v", "e", "r", " ", "e", "r", "r", "o", "r">>)

\* any status code 500..599
MentionsAny5xx(x) ==
    \E a \in DigitChars, b \in DigitChars : Includes(Lowered(x), <<"5", a, b>>)

MentionsNetwork(x) ==
    \/ Includes(Lowered(x), <<"f", "e", "t", "c", "h">>)
    \/ Includes(Lowered(x), <<"n", "e", "t", "w", "o", "r", "k">>)

\* C10: not online gives Offline whatever the message; online, the first
\* matching predicate wins in the order credential, quota, server error,
\* network, and a message matching none is Unknown; the match ignores case.
\* (Which status codes count as a server error beyond 500 and 503 is left
\* open here: a message with another 5xx code is constrained only where an
\* earlier predicate matches.)
C10_ClassifierPriority ==
    fnOut.t = "text" =>
        LET x == fnIn
            out == fnOut.text
        IN  /\ ~x.onLine => out = OfflineText
            /\ (x.onLine /\ MentionsCredential(x)) => out = AuthText
            /\ (x.onLine /\ ~MentionsCredential(x) /\ MentionsQuota(x)) => out = QuotaText
            /\ (x.onLine /\ ~MentionsCredential(x) /\ ~MentionsQuota(x)
                  /\ MentionsServerError(x)) => out = ServiceText
            /\ (x.onLine /\ ~MentionsCredential(x) /\ ~MentionsQuota(x)
                  /\ ~MentionsServerError(x) /\ ~MentionsAny5xx(x)
                  /\ MentionsNetwork(x)) => out = NetworkText
            /\ (x.onLine /\ ~MentionsCredential(x) /\ ~MentionsQuota(x)
                  /\ ~MentionsServerError(x) /\ ~MentionsAny5xx(x)
                  /\ ~MentionsNetwork(x)) => StartsAt(out, 1, UnknownPrefix)

\* an online failure that mentions both the quota and a server error, in
\* upper case, has been classified as a quota error
C10_Witness ==
    /\ fnOut.t = "text"
    /\ fnIn.onLine
    /\ fnIn.error.text = <<"5", "0", "0", " ", "Q", "U", "O", "T", "A">>
    /\ fnOut.text = QuotaText

(***************************************************************************)
(* parseResponse applied to the texts of the input set below.              *)
(***************************************************************************)
\* the state of the App component while a pure function is under check
Dormant ==
    /\ LET st == InitializeChat("ok", FetchFailed, TRUE)
       IN  /\ messages = st.messages
           /\ ai = st.ai
           /\ chat = st.chat
    /\ input = <<>>
    /\ isLoading = FALSE
    /\ loadingText = Processing
    /\ isListening = FALSE
    /\ isTtsEnabled = FALSE
    /\ isSpeechSupported = TRUE
    /\ isTtsSupported = TRUE
    /\ pc = "idle"
    /\ chatRequest = NoValue
    /\ chatResult = NoValue
    /\ imageRequest = NoValue
    /\ recState = "inactive"
    /\ synth = <<>>
    /\ parseCalls = <<>>
    /\ SandboxInit

\* the pieces the input texts are made of: a fence marker, a line break, a
\* blank, a word character in upper case, and a whole fenced region
ParseTokens ==
    {Fence, <<"\n">>, <<" ">>, <<"J">>, Fence \o <<"\n", "J">> \o Fence}

RECURSIVE Flatten(_)
Flatten(ts) == IF ts = <<>> THEN <<>> ELSE Head(ts) \o Flatten(Tail(ts))

\* the texts made of at most MaxTokens pieces
ParseInputs ==
    {Flatten(ts) : ts \in UNION {[1..n -> ParseTokens] : n \in 0..MaxTokens}}

ParseInit ==
    /\ Dormant
    /\ fnIn \in {[t |-> "text", text |-> x] : x \in ParseInputs}
    /\ fnOut = NoValue

Parse ==
    /\ fnIn.t = "text"
    /\ fnOut = NoValue
    /\ fnOut' = [t |-> "parts", parts |-> parseResponse(fnIn.text)]
    /\ UNCHANGED <<messages, input, isLoading, loadingText, chat, ai, isListening,
                   isTtsEnabled, isSpeechSupported, isTtsSupported, pc, chatRequest,
                   chatResult, imageRequest, recState, synth, parseCalls, consoleLog,
                   output, runError, uncaught, fnIn>>

ParseSpec == ParseInit /\ [][Parse]_vars

\* a part written out again: the content of a Text part, the fence, the
\* language, a line break, the content and the fence of a Code part
RECURSIVE Rebuild(_)
Rebuild(parts) ==
    IF parts = <<>> THEN <<>>
    ELSE LET part == Head(parts)
         IN  (IF part.type = "code"
              THEN Fence \o part.language \o <<"\n">> \o part.content \o Fence
              ELSE part.content) \o Rebuild(Tail(parts))

\* the text from index from on, with every fenced region's interior trimmed
\* and its tag in lower case
RECURSIVE TrimmedAndLowered(_, _)
TrimmedAndLowered(text, from) ==
    LET m == RegexExec(text, from)
    IN  IF ~m.found THEN SubSeq(text, from, Len(text))
        ELSE SubSeq(text, from, m.index - 1)
             \o Fence \o ToLowerCase(m.tag) \o <<"\n">> \o Trim(m.body) \o Fence
             \o TrimmedAndLowered(text, m.lastIndex)

\* the same, with an empty tag written as plaintext
RECURSIVE TrimmedLoweredTagged(_, _)
TrimmedLoweredTagged(text, from) ==
    LET m == RegexExec(text, from)
    IN  IF ~m.found THEN SubSeq(text, from, Len(text))
        ELSE SubSeq(text, from, m.index - 1)
             \o Fence \o (IF m.tag = <<>> THEN Plaintext ELSE ToLowerCase(m.tag))
             \o <<"\n">> \o Trim(m.body) \o Fence
             \o TrimmedLoweredTagged(text, m.lastIndex)

\* C11 as stated: parseResponse returns at least one part, and its parts
\* written out in order give back the input up to the trimming of the code
\* interiors and the case of the tags.
C11_RoundTrip ==
    fnOut.t = "parts" =>
        /\ Len(fnOut.parts) >= 1
        /\ Rebuild(fnOut.parts) = TrimmedAndLowered(fnIn.text, 1)

\* C11, amended: the same, up to the trimming of the code interiors, the
\* case of the tags, and an empty tag coming back as plaintext.
C11_RoundTripUpToDefaultTag ==
    fnOut.t = "parts" =>
        /\ Len(fnOut.parts) >= 1
        /\ \A k \in 1..Len(fnOut.parts) : fnOut.parts[k].type \in {"text", "code"}
        /\ Rebuild(fnOut.parts) = TrimmedLoweredTagged(fnIn.text, 1)

\* a text with prose before a fence with an upper-case tag, and one with an
\* interior to trim, have been parsed; the parts written out differ from
\* the input
C11_Witness ==
    /\ fnOut.t = "parts"
    /\ Len(fnOut.parts) = 2
    /\ fnOut.parts[1].type = "text"
    /\ fnOut.parts[2] = [type |-> "code", language |-> <<"j">>, content |-> <<"J">>]
    /\ Rebuild(fnOut.parts) # fnIn.text

(***************************************************************************)
(* CodeBlock.handleRunCode (lines 110-142).  A snippet is what it does     *)
(* when run: the console.log calls it makes, then the value it returns or  *)
(* throws.                                                                 *)
(***************************************************************************)
VUndefined == [t |-> "undefined"]

VNull == [t |-> "null"]

VNumber == [t |-> "number", text |-> <<"1">>]

VString == [t |-> "string", text |-> <<"a">>]

\* the object {a: 1}
VObject == [t |-> "object", cyclic |-> FALSE, json |-> <<"{\n  \"a\": 1\n}">>]

\* an object that refers to itself
VCyclic == [t |-> "object", cyclic |-> TRUE]

\* new Error("boom")
VError == [t |-> "Error", message |-> <<"boom">>]

Thrown(value) == [t |-> "throw", value |-> value]

Returned(value) == [t |-> "return", value |-> value]

\* JSON.stringify(v, null, 2): the text, or the TypeError it throws
JsonStringify(v) ==
    CASE v.t = "number" -> Returned(v.text)
      [] v.t = "string" -> Returned(<<"\"">> \o v.text \o <<"\"">>)
      [] v.t = "null"   -> Returned(<<"n", "u", "l", "l">>)
      [] v.t = "object" ->
            IF v.cyclic
            THEN Thrown([t |-> "Error", message |-> <<"Converting circular structure to JSON">>])
            ELSE Returned(v.json)
      [] v.t = "Error"  -> Returned(<<"{", "}">>)
      [] OTHER          -> Returned(<<"undefined">>)

\* String(v) for a value that is not an object
StringOfValue(v) ==
    CASE v.t = "number" -> v.text
      [] v.t = "string" -> v.text
      [] OTHER          -> <<"undefined">>

\* typeof v === "object"
IsObjectType(v) == v.t \in {"object", "null", "Error"}

\* lines 118-126: one argument of a console.log call as text
FormatArg(arg) ==
    IF IsObjectType(arg)
    THEN IF JsonStringify(arg).t = "return" THEN JsonStringify(arg).value
         ELSE <<"Could not stringify object">>
    ELSE StringOfValue(arg)

\* lines 115-128: the line the interceptor pushes for one console.log call
InterceptedLine(args) == JoinSpace([k \in 1..Len(args) |-> FormatArg(args[k])])

\* line 113: const logs = []
FreshLogs(previous) == <<>>

\* lines 110-142: the state handleRunCode leaves behind, from the console
\* function and the output it found
HandleRunCodeResult(snippet, console0, output0) ==
    LET original == console0
        printed == FreshLogs(output0) \o
                   [k \in 1..Len(snippet.calls) |-> InterceptedLine(snippet.calls[k])]
        end == snippet.end
    IN  IF end.t = "return"
        THEN IF end.value.t = "undefined"
             THEN [consoleLog |-> original, output |-> printed,
                   runError |-> [t |-> "null"], uncaught |-> NoValue]
             ELSE IF JsonStringify(end.value).t = "return"
             THEN [consoleLog |-> original,
                   output |-> Append(printed, <<"=", ">", " ">> \o JsonStringify(end.value).value),
                   runError |-> [t |-> "null"], uncaught |-> NoValue]
             ELSE [consoleLog |-> original, output |-> printed,
                   runError |-> [t |-> "string",
                                 text |-> JsonStringify(end.value).value.message],
                   uncaught |-> NoValue]
        ELSE \* catch (e) { setError(e.message) }
             IF end.value.t \in {"null", "undefined"}
             THEN [consoleLog |-> original, output |-> printed,
                   runError |-> [t |-> "null"],
                   uncaught |-> [t |-> "TypeError"]]
             ELSE IF end.value.t = "Error"
             THEN [consoleLog |-> original, output |-> printed,
                   runError |-> [t |-> "string", text |-> end.value.message],
                   uncaught |-> NoValue]
             ELSE [consoleLog |-> original, output |-> printed,
                   runError |-> [t |-> "undefined"], uncaught |-> NoValue]

\* the values a snippet prints
LogValues == {VNumber, VString, VObject, VCyclic}

\* the ways a snippet ends
SnippetEnds ==
    {Returned(v) : v \in {VUndefined, VNumber, VCyclic}}
    \cup {Thrown(v) : v \in {VError, VNull, VString}}

Snippets ==
    {[calls |-> c, end |-> e] :
        c \in UNION {[1..n -> {<<v>> : v \in LogValues}] : n \in 0..MaxLogs},
        e \in SnippetEnds}

RunInit ==
    /\ Dormant
    /\ fnIn = NoValue
    /\ fnOut = NoValue

\* a click on Run Code
RunCode ==
    /\ \E snippet \in Snippets :
          LET r == HandleRunCodeResult(snippet, consoleLog, output)
          IN  /\ fnIn' = [t |-> "snippet", snippet |-> snippet]
              /\ consoleLog' = r.consoleLog
              /\ output' = r.output
              /\ runError' = r.runError
              /\ uncaught' = r.uncaught
    /\ UNCHANGED <<messages, input, isLoading, loadingText, chat, ai, isListening,
                   isTtsEnabled, isSpeechSupported, isTtsSupported, pc, chatRequest,
                   chatResult, imageRequest, recState, synth, parseCalls, fnOut>>

RunSpec == RunInit /\ [][RunCode]_vars

\* the snippet raised: it threw, or its return value cannot be serialized
Raised(snippet) ==
    \/ snippet.end.t = "throw"
    \/ snippet.end.t = "return" /\ snippet.end.value = VCyclic

\* C12: after a run the console function is the one installed before it,
\* nothing has left the handler, a failure is reported as the error value,
\* and the output is the lines this run printed, followed at most by the
\* line of the return value.
C12_SandboxContainsFailures ==
    fnIn.t = "snippet" =>
        LET snippet == fnIn.snippet
        IN  /\ consoleLog = "original"
            /\ uncaught = NoValue
            /\ Raised(snippet) => runError.t = "string"
            /\ ~Raised(snippet) => runError.t = "null"
            /\ Len(output) >= Len(snippet.calls)
            /\ Len(output) <= Len(snippet.calls) + 1
            /\ \A k \in 1..Len(snippet.calls) :
                  output[k] = InterceptedLine(snippet.calls[k])

\* the part of C12 that does hold: the console is restored and the lines
\* of this run, and only they, are reported, also when the snippet throws
SandboxRestoresAndKeepsLines ==
    fnIn.t = "snippet" =>
        LET snippet == fnIn.snippet
        IN  /\ consoleLog = "original"
            /\ Len(output) >= Len(snippet.calls)
            /\ Len(output) <= Len(snippet.calls) + 1
            /\ \A k \in 1..Len(snippet.calls) :
                  output[k] = InterceptedLine(snippet.calls[k])

\* C13: without a session handle the log is the single Assistant message
\* seeded at startup, no turn is ever pending, and no step (so no submit,
\* whatever the draft holds) changes the log or creates a session.
C13_NoSessionNoSubmit ==
    /\ [](~chat => /\ Len(messages) = 1
                   /\ messages[1].role = "ai"
                   /\ Len(messages[1].parts) = 1
                   /\ messages[1].parts[1].type = "text"
                   /\ ~isLoading
                   /\ pc = "idle")
    /\ [][~chat => messages' = messages /\ ~chat']_vars

\* a dictated draft is ready to submit, and there is no session
C13_Witness ==
    /\ ~chat
    /\ Trim(input) # <<>>
    /\ ~isLoading
    /\ Len(messages) = 1

\* C14: a reply that is not a directive -- text that does not parse, the
\* empty string, JSON that is not an object, an object without an
\* image_prompt or with one that is not a string -- appends exactly one
\* Assistant message, the parseResponse output for the trimmed reply text,
\* and ends the turn; no failure message, no image request.
C14_NotADirectiveIsParsed ==
    [][(ReplyArrives /\ ~HasStringImagePrompt(chatResult'.response.text))
          => /\ messages' = Append(messages,
                    Message("ai", parseResponse(Trim(chatResult'.response.text))))
             /\ ~isLoading'
             /\ pc' = "idle"
             /\ imageRequest' = imageRequest]_vars

\* the reply whose image_prompt is a number has been shown as text
C14_Witness ==
    /\ pc = "idle"
    /\ chatResult.t = "response"
    /\ chatResult.response.defined
    /\ chatResult.response.text = ReplyNumberPrompt
    /\ LastMessage(messages) = Message("ai", <<TextPart(ReplyNumberPrompt)>>)

\* C15: online, a failure text that mentions a status code 500..599 or the
\* phrase "server error", and matches neither the credential nor the quota
\* predicate, is classified as a service error.
C15_Any5xxIsServiceError ==
    fnOut.t = "text" =>
        ((/\ fnIn.onLine
          /\ ~MentionsCredential(fnIn)
          /\ ~MentionsQuota(fnIn)
          /\ \/ MentionsAny5xx(fnIn)
             \/ Includes(Lowered(fnIn), <<"s", "e", "r", "v", "e", "r", " ", "e", "r", "r", "o", "r">>))
            => fnOut.text = ServiceText)

\* the text holds a complete fenced region: three backticks, word
\* characters only up to a line break, at least one character, three
\* backticks
HasFencedRegion(text) ==
    \E i \in 1..Len(text), n \in 1..Len(text), j \in 1..Len(text) :
        /\ i + 3 <= n
        /\ n + 2 <= j
        /\ j + 2 <= Len(text)
        /\ \A k \in i..(i + 2) : text[k] = BQ
        /\ \A k \in (i + 3)..(n - 1) : text[k] \in WordChars
        /\ text[n] = "\n"
        /\ \A k \in j..(j + 2) : text[k] = BQ

\* some opening of a region (three backticks, word characters, a line
\* break) has no three backticks after it
HasUnterminatedFence(text) ==
    \E i \in 1..Len(text), n \in 1..Len(text) :
        /\ i + 3 <= n
        /\ \A k \in i..(i + 2) : text[k] = BQ
        /\ \A k \in (i + 3)..(n - 1) : text[k] \in WordChars
        /\ text[n] = "\n"
        /\ ~\E j \in (n + 1)..Len(text) : StartsAt(text, j, Fence)

\* C16: for a text without a complete fenced region, unterminated opening
\* markers included, parseResponse returns exactly one Text part holding
\* the whole text, and no Code part.
C16_UnterminatedFenceIsText ==
    (fnOut.t = "parts" /\ ~HasFencedRegion(fnIn.text))
        => fnOut.parts = <<TextPart(fnIn.text)>>

\* an opening marker with an interior and no closing marker was parsed
C16_Witness ==
    /\ fnOut.t = "parts"
    /\ fnIn.text = Fence \o <<"\n", "J", " ">>
    /\ HasUnterminatedFence(fnIn.text)
    /\ ~HasFencedRegion(fnIn.text)
    /\ fnOut.parts = <<TextPart(fnIn.text)>>

\* C17 as stated: for a text with at least one fenced region, no Text part
\* returned by parseResponse has whitespace-only content.
C17_BlankSegmentsDropped ==
    (fnOut.t = "parts" /\ HasFencedRegion(fnIn.text))
        => \A k \in 1..Len(fnOut.parts) :
              fnOut.parts[k].type = "text" => Trim(fnOut.parts[k].content) # <<>>

\* C17, amended: for a text with at least one fenced region, no Text part
\* returned by parseResponse has empty content; a whitespace-only segment
\* is returned as a Text part like any other.
C17_EmptySegmentsDropped ==
    (fnOut.t = "parts" /\ HasFencedRegion(fnIn.text))
        => /\ \A k \in 1..Len(fnOut.parts) :
                 fnOut.parts[k].type = "text" => fnOut.parts[k].content # <<>>
           /\ \E k \in 1..Len(fnOut.parts) : fnOut.parts[k].type = "code"

\* two adjacent fenced regions with a blank between them, and nothing
\* before the first or after the second, have been parsed: the blank is a
\* part of its own
C17_Witness ==
    /\ fnOut.t = "parts"
    /\ fnIn.text = Fence \o <<"\n", "J">> \o Fence \o <<" ">> \o Fence \o <<"\n", "J">> \o Fence
    /\ Len(fnOut.parts) = 3
    /\ fnOut.parts[1].type = "code"
    /\ fnOut.parts[2] = TextPart(<<" ">>)
    /\ fnOut.parts[3].type = "code"

\* C18: capture starts only from Idle, in a step that clears the draft and
\* sets the listening flag; the capture action while listening leaves the
\* flag and the draft alone and starts nothing; the flag falls only in the
\* step of the recognizer's end event; and after a stop request the flag
\* falls eventually.
C18_CaptureMachine ==
    /\ [](isListening <=> recState # "inactive")
    /\ [][(recState # "capturing" /\ recState' = "capturing")
             => /\ ~isListening
                /\ recState = "inactive"
                /\ isListening'
                /\ input' = <<>>]_vars
    /\ [][(HandleListen /\ isListening)
             => /\ isListening'
                /\ input' = input
                /\ recState' \in {"stopping", "errored"}]_vars
    /\ [][(isListening /\ ~isListening')
             => /\ recState' = "inactive"
                /\ input' = input
                /\ messages' = messages
                /\ synth' = synth]_vars
    /\ (recState = "stopping" ~> ~isListening)

\* a stop has been requested and the end event is still to come
C18_Witness ==
    /\ isListening
    /\ recState = "stopping"
    /\ input # <<>>

\* C19: the error event of the recognizer appends no message and leaves the
\* phase and the draft alone, and after it the listening flag falls, with
\* the end event that follows the error, as after a stop request.
C19_ErrorEndsListening ==
    /\ [][(recState # "errored" /\ recState' = "errored")
             => /\ isListening
                /\ messages' = messages
                /\ isLoading' = isLoading
                /\ pc' = pc
                /\ input' = input
                /\ synth' = synth]_vars
    /\ (recState = "errored" ~> (~isListening /\ recState = "inactive"))

\* the recognizer has failed during a capture, the end event is still to
\* come
C19_Witness ==
    /\ recState = "errored"
    /\ isListening
    /\ ~isLoading

\* C20: while a reply is pending the draft stays empty: no result event of
\* the recognizer, of a capture running at submit time or started later,
\* changes it before the turn resolves.
C20_DraftEmptyWhilePending ==
    /\ [](isLoading => input = <<>>)
    /\ [][(isLoading /\ isLoading') => input' = input]_vars

\* C21: with a session handle, the messages of the log are User, Assistant,
\* User, Assistant, ... from the first one on; no turn is in flight exactly
\* when the log has even length, and the last message is a User message
\* exactly when a turn is in flight.
C21_LogAlternates ==
    chat =>
        /\ \A k \in 1..Len(messages) :
              messages[k].role = IF k % 2 = 1 THEN "user" ELSE "ai"
        /\ (pc = "idle") <=> (Len(messages) % 2 = 0)
        /\ isLoading <=> (pc # "idle")
        /\ (messages # <<>> /\ LastMessage(messages).role = "user") <=> isLoading

\* the second turn is in flight on the image path, after a first turn that
\* was answered
C21_Witness ==
    /\ chat
    /\ Len(messages) = 3
    /\ messages[2].role = "ai"
    /\ LastMessage(messages).role = "user"
    /\ pc = "awaitImage"
    /\ isLoading

====
